---------------------------- MODULE Spec2Model ----------------------------
(***************************************************************************)
(* A model of pymatgen/io/feff/inputs.py: the atomic shell table of        *)
(* FeffAtoms and the typed tag store FeffTags.                             *)
(*                                                                         *)
(* Text is modelled as a sequence of one-character strings, so that        *)
(* formatting, parsing, splitting and comparison of text are computed      *)
(* character by character, as Python computes them.                        *)
(*                                                                         *)
(* Lengths and coordinates are integers counting tenths of an angstrom.    *)
(***************************************************************************)
EXTENDS Integers, Sequences, FiniteSets, TLC

VARIABLES
    struct,         \* FeffAtoms._struct: the ordered site list
    central_atom,   \* FeffAtoms._central_atom
    pot_dict,       \* FeffAtoms._pot_dict
    apc,            \* FeffAtoms: "args" before __init__, "ready" after it,
                    \* "done" once get_string has returned or raised
    atoms_out,      \* what the last FeffAtoms.get_string produced
    c_key,          \* FeffTags.proc_val: the argument key
    c_val,          \* FeffTags.proc_val: the argument val
    c_out,          \* FeffTags.proc_val: what the call returned
    cpc,            \* FeffTags.proc_val: "call" before it runs, "return" after
    t_self,         \* a FeffTags object: its items, in insertion order
    t_other,        \* a second FeffTags object
    t_out,          \* the last call on t_self: what it returned or raised
    p_src,          \* the text of a parameter file
    p_tags,         \* FeffTags.from_file of that file
    p_mode,         \* the sort_keys and pretty given to get_string
    p_text,         \* p_tags.get_string(...), written to a second file
    p_back,         \* FeffTags.from_file of the second file
    ppc,            \* "file", "parsed", "written", "reparsed"
    f_pot_dict,     \* FeffPot._pot_dict, of a FeffPot(struct, central_atom)
    fpc,            \* FeffPot: "args" before __init__, "ready" after it,
                    \* "done" once __str__ has returned or raised
    pot_out         \* what the last FeffPot.__str__ produced

avars == <<struct, central_atom, pot_dict, apc, atoms_out>>

cvars == <<c_key, c_val, c_out, cpc>>

tvars == <<t_self, t_other, t_out>>

pvars == <<p_src, p_tags, p_mode, p_text, p_back, ppc>>

fvars == <<f_pot_dict, fpc, pot_out>>

vars == <<avars, cvars, tvars, pvars, fvars>>

\* the parts of the module that a specification leaves idle
IdleAtoms ==
    /\ struct = <<>> /\ central_atom = <<>> /\ pot_dict = <<>>
    /\ apc = "idle" /\ atoms_out = <<>>

IdleCoerce == c_key = <<>> /\ c_val = <<>> /\ c_out = <<>> /\ cpc = "idle"

IdleTags == t_self = <<>> /\ t_other = <<>> /\ t_out = <<>>

IdleParse ==
    /\ p_src = <<>> /\ p_tags = <<>> /\ p_mode = <<>> /\ p_text = <<>> /\ p_back = <<>>
    /\ ppc = "idle"

IdlePot == f_pot_dict = <<>> /\ fpc = "idle" /\ pot_out = <<>>

(***************************************************************************)
(* Bounds of the model.                                                    *)
(***************************************************************************)
\* the most sites of a structure
MaxSites == 3

\* the most tokens of a value given to proc_val
MaxToks == 2

(***************************************************************************)
(* Characters and Python's ordering of text.                               *)
(***************************************************************************)
\* the characters of the model, in code point order
Ascii ==
    <<"\n", " ", "#", "*", "+", "-", ".",
      "0", "1", "2", "3", "4", "5", "6", "7", "8", "9",
      "A", "B", "C", "D", "E", "F", "G", "H", "I", "J", "K", "L", "M",
      "N", "O", "P", "Q", "R", "S", "T", "U", "V", "W", "X", "Y", "Z",
      "a", "b", "c", "d", "e", "f", "g", "h", "i", "j", "k", "l", "m",
      "n", "o", "p", "q", "r", "s", "t", "u", "v", "w", "x", "y", "z">>

Chars == {Ascii[i] : i \in 1..Len(Ascii)}

Ord == [c \in Chars |-> CHOOSE i \in 1..Len(Ascii) : Ascii[i] = c]

DigitChars == <<"0", "1", "2", "3", "4", "5", "6", "7", "8", "9">>

IsDigit(c) == c \in {"0", "1", "2", "3", "4", "5", "6", "7", "8", "9"}

DigitVal(c) == (CHOOSE i \in 1..10 : DigitChars[i] = c) - 1

\* Python's < on two texts: lexicographic by code point
RECURSIVE StrLess(_, _)
StrLess(a, b) ==
    IF b = <<>> THEN FALSE
    ELSE IF a = <<>> THEN TRUE
    ELSE IF Ord[Head(a)] # Ord[Head(b)] THEN Ord[Head(a)] < Ord[Head(b)]
    ELSE StrLess(Tail(a), Tail(b))

\* the decimal digits of a natural number: str(n)
RECURSIVE StrNat(_)
StrNat(n) ==
    IF n < 10 THEN <<DigitChars[n + 1]>>
    ELSE StrNat(n \div 10) \o <<DigitChars[(n % 10) + 1]>>

Abs(n) == IF n < 0 THEN -n ELSE n

\* "{:f}".format(v) for v = t tenths: sign, integer part, six decimals
FormatF(t) ==
    (IF t < 0 THEN <<"-">> ELSE <<>>)
        \o StrNat(Abs(t) \div 10)
        \o <<".", DigitChars[(Abs(t) % 10) + 1], "0", "0", "0", "0", "0">>

(***************************************************************************)
(* The structure: an ordered list of sites.                                *)
(***************************************************************************)
Co == <<"C", "o">>

O == <<"O">>

Symbols == {Co, O}

\* a species: its element symbol and the oxidation-state decoration that its
\* species_string carries after the symbol (Co2+, O)
Species == {[symbol |-> Co, decor |-> <<"2", "+">>], [symbol |-> O, decor |-> <<>>]}

\* x coordinates of the sites, in tenths of an angstrom (y = z = 0)
Xs == {0, 10, 20, 120}

Sites == {[specie |-> sp, coords |-> <<x, 0, 0>>] : sp \in Species, x \in Xs}

Structures == UNION {[1..n -> Sites] : n \in 1..MaxSites}

\* cutoff radii, in tenths of an angstrom
Radii == {0, 25, 120}

\* site.species_string
species_string(site) == site.specie.symbol \o site.specie.decor

\* the character class [aA-zZ] of the pattern in get_string: a, A..z, Z
InAzClass(c) == Ord[c] >= Ord["A"] /\ Ord[c] <= Ord["z"]

\* re.sub(r"[^aA-zZ]+", "", s): drop every character outside the class
RECURSIVE ReSubNonAlpha(_)
ReSubNonAlpha(s) ==
    IF s = <<>> THEN <<>>
    ELSE (IF InAzClass(Head(s)) THEN <<Head(s)>> ELSE <<>>) \o ReSubNonAlpha(Tail(s))

\* the distance between two points whose squared distance is a perfect square
Distance(p, q) ==
    LET s == (p[1] - q[1]) * (p[1] - q[1]) + (p[2] - q[2]) * (p[2] - q[2])
             + (p[3] - q[3]) * (p[3] - q[3])
    IN  CHOOSE d \in 0..(Abs(p[1] - q[1]) + Abs(p[2] - q[2]) + Abs(p[3] - q[3])) : d * d = s

\* Structure.get_sites_in_sphere(struct, pt, r): the indices of the sites
\* within r of pt (the cutoff is inclusive), each with its distance
InSphere(st, pt, r) == {i \in 1..Len(st) : Distance(st[i].coords, pt) <= r}

\* the orders in which the neighbour search may return a set of sites
RECURSIVE Orders(_)
Orders(S) ==
    IF S = {} THEN {<<>>}
    ELSE UNION {{<<x>> \o f : f \in Orders(S \ {x})} : x \in S}

(***************************************************************************)
(* FeffAtoms.__init__: the potential index map.                            *)
(***************************************************************************)
\* syms = [site.specie.symbol for site in struct]
Syms(st) == [i \in 1..Len(st) |-> st[i].specie.symbol]

\* unique_pot_atoms: the symbols of syms in order of first occurrence
RECURSIVE UniquePotAtoms(_, _)
UniquePotAtoms(syms, acc) ==
    IF syms = <<>> THEN acc
    ELSE UniquePotAtoms(Tail(syms),
             IF \E k \in 1..Len(acc) : acc[k] = Head(syms) THEN acc
             ELSE Append(acc, Head(syms)))

\* the map numbered from 0 instead of 1
PotDictFromZero(st) ==
    LET u == UniquePotAtoms(Syms(st), <<>>)
    IN  [a \in {u[k] : k \in 1..Len(u)} |-> (CHOOSE k \in 1..Len(u) : u[k] = a) - 1]

\* _pot_dict[atom] = i + 1 for the i-th (from 0) unique symbol
PotDict(st) ==
    LET u == UniquePotAtoms(Syms(st), <<>>)
    IN  [a \in {u[k] : k \in 1..Len(u)} |-> CHOOSE k \in 1..Len(u) : u[k] = a]

AtomsConstruct ==
    /\ apc = "args"
    /\ pot_dict' = PotDict(struct)
    /\ apc' = "ready"
    /\ UNCHANGED <<struct, central_atom, atoms_out>>

(***************************************************************************)
(* FeffAtoms.get_string: the shell table.                                  *)
(***************************************************************************)
\* the last site of that symbol, 0 if none
IndexOfLast(syms, a) ==
    IF \E i \in 1..Len(syms) : syms[i] = a
    THEN CHOOSE i \in 1..Len(syms) : syms[i] = a /\ \A j \in (i + 1)..Len(syms) : syms[j] # a
    ELSE 0

\* ptatoms.index(central_atom): the first site of that symbol, 0 if none
IndexOf(syms, a) ==
    IF \E i \in 1..Len(syms) : syms[i] = a
    THEN CHOOSE i \in 1..Len(syms) : syms[i] = a /\ \A j \in 1..(i - 1) : syms[j] # a
    ELSE 0

\* the key the rows are sorted by: itemgetter(5), the formatted distance
SortKey(r) == r.distance

\* Python's < on two sort keys
KeyLess(a, b) == StrLess(a, b)

\* sorted(rows, key=SortKey): stable, so a row goes after every row whose
\* key is not greater than its own
RECURSIVE InsertRow(_, _)
InsertRow(sorted, r) ==
    IF sorted = <<>> THEN <<r>>
    ELSE IF KeyLess(SortKey(r), SortKey(Head(sorted))) THEN <<r>> \o sorted
    ELSE <<Head(sorted)>> \o InsertRow(Tail(sorted), r)

RECURSIVE SortedRows(_, _)
SortedRows(rows, acc) ==
    IF rows = <<>> THEN acc
    ELSE SortedRows(Tail(rows), InsertRow(acc, Head(rows)))

\* one row of the table for the i-th entry (from 1) of sphere; site, sel and
\* dist record where the row came from (the site, its place in sphere, its
\* distance as a number) and are not columns of the table
MakeRow(st, pd, pt, sphere, i) ==
    LET atom == st[sphere[i][1]]
        atm  == ReSubNonAlpha(species_string(atom))
    IN  [x        |-> FormatF(atom.coords[1] - pt[1]),
         y        |-> FormatF(atom.coords[2] - pt[2]),
         z        |-> FormatF(atom.coords[3] - pt[3]),
         ipot     |-> pd[atm],
         atm      |-> atm,
         distance |-> FormatF(sphere[i][2]),
         number   |-> i - 1,
         site     |-> sphere[i][1],
         sel      |-> i,
         dist     |-> sphere[i][2]]

\* row_sorted[0][3] = 0
ForceCenter(rows) == [rows EXCEPT ![1].ipot = 0]

\* row_sorted[i][6] = i
Renumber(rows) == [i \in 1..Len(rows) |-> [rows[i] EXCEPT !.number = i - 1]]

\* the rows get_string tabulates, for the neighbour order ord
ShellRows(st, pd, index, radius, ord) ==
    LET pt     == st[index].coords
        sphere == [k \in 1..Len(ord) |-> <<ord[k], Distance(st[ord[k]].coords, pt)>>]
        row    == [k \in 1..Len(sphere) |-> MakeRow(st, pd, pt, sphere, k)]
    IN  Renumber(ForceCenter(SortedRows(row, <<>>)))

NoTable == [status |-> "none", radius |-> 0, rows |-> <<>>]

AtomsGetString ==
    /\ apc = "ready"
    /\ \E radius \in Radii :
         LET index == IndexOf(Syms(struct), central_atom) IN
         IF index = 0
         THEN atoms_out' = [status |-> "ValueError", radius |-> radius, rows |-> <<>>]
         ELSE \E ord \in Orders(InSphere(struct, struct[index].coords, radius)) :
                atoms_out' = [status |-> "ok", radius |-> radius,
                              rows |-> ShellRows(struct, pot_dict, index, radius, ord)]
    /\ apc' = "done"
    /\ UNCHANGED <<struct, central_atom, pot_dict>>

AtomsInit ==
    /\ IdleCoerce /\ IdleTags /\ IdleParse /\ IdlePot
    /\ struct \in Structures
    /\ central_atom \in Symbols
    /\ pot_dict = <<>>
    /\ apc = "args"
    /\ atoms_out = NoTable

AtomsNext ==
    \/ AtomsConstruct /\ UNCHANGED <<cvars, tvars, pvars, fvars>>
    \/ AtomsGetString /\ UNCHANGED <<cvars, tvars, pvars, fvars>>

SpecAtoms == AtomsInit /\ [][AtomsNext]_vars

(***************************************************************************)
(* Claims about the shell table.                                           *)
(***************************************************************************)
Built == apc = "done" /\ atoms_out.status = "ok"

Rows == atoms_out.rows

CenterIndex == IndexOf(Syms(struct), central_atom)

\* C1: the rows of the table are in ascending order of their numeric distance
\* from the center, for every radius, and rows of equal distance keep the
\* order in which they were selected.
C1_RowsAscendingByDistance ==
    Built =>
        \A i, j \in 1..Len(Rows) :
            i < j => /\ Rows[i].dist <= Rows[j].dist
                     /\ (Rows[i].dist = Rows[j].dist => Rows[i].sel < Rows[j].sel)

\* C2: exactly one row has potential index 0, it is row 0, it is the center
\* site itself at distance 0, and the sequence numbers are 0..N-1 in order.
C2_CenterIsRowZero ==
    Built =>
        /\ Len(Rows) >= 1
        /\ \A i \in 1..Len(Rows) : (Rows[i].ipot = 0) <=> (i = 1)
        /\ Rows[1].site = CenterIndex
        /\ Rows[1].dist = 0
        /\ \A i \in 1..Len(Rows) : Rows[i].number = i - 1

\* the three-site list of C3: Co at the origin first, then two O sites at
\* 1.0 and 2.0 angstrom, Co the center, cut off at 2.5 angstrom
IsEndToEndCase ==
    /\ Built
    /\ Len(struct) = 3
    /\ struct[1].specie.symbol = Co /\ struct[1].coords = <<0, 0, 0>>
    /\ struct[2].specie.symbol = O /\ struct[3].specie.symbol = O
    /\ {struct[2].coords, struct[3].coords} = {<<10, 0, 0>>, <<20, 0, 0>>}
    /\ central_atom = Co
    /\ atoms_out.radius = 25

\* C3 as stated: the end-to-end case yields 3 rows in order of distance with
\* potential indices [0, 1, 1] and species Co in row 0.
C3_EndToEndAsStated ==
    IsEndToEndCase =>
        /\ [i \in 1..Len(Rows) |-> Rows[i].dist] = <<0, 10, 20>>
        /\ [i \in 1..Len(Rows) |-> Rows[i].ipot] = <<0, 1, 1>>
        /\ Rows[1].atm = Co

\* C3 amended: the end-to-end case yields 3 rows in order of distance
\* (0.0, 1.0, 2.0) with potential indices [0, 2, 2] (Co, first in the list,
\* takes index 1 in the map, so O takes 2) and species Co in row 0.
C3_EndToEnd ==
    IsEndToEndCase =>
        /\ [i \in 1..Len(Rows) |-> Rows[i].dist] = <<0, 10, 20>>
        /\ [i \in 1..Len(Rows) |-> Rows[i].distance] =
               <<FormatF(0), FormatF(10), FormatF(20)>>
        /\ [i \in 1..Len(Rows) |-> Rows[i].ipot] = <<0, 2, 2>>
        /\ [i \in 1..Len(Rows) |-> Rows[i].number] = <<0, 1, 2>>
        /\ Rows[1].atm = Co
        /\ Rows[2].atm = O /\ Rows[3].atm = O

C3_Witness == IsEndToEndCase /\ Len(Rows) = 3

(***************************************************************************)
(* Text operations of Python used by FeffTags.                             *)
(***************************************************************************)
Whitespace == {" ", "\n"}

Digits == {"0", "1", "2", "3", "4", "5", "6", "7", "8", "9"}

IsUpper(c) == Ord[c] >= Ord["A"] /\ Ord[c] <= Ord["Z"]

IsLower(c) == Ord[c] >= Ord["a"] /\ Ord[c] <= Ord["z"]

\* c.upper() and c.lower()
ToUpper(c) == IF IsLower(c) THEN Ascii[Ord[c] - 26] ELSE c

ToLower(c) == IF IsUpper(c) THEN Ascii[Ord[c] + 26] ELSE c

\* s.upper() and s.lower()
Upper(s) == [i \in 1..Len(s) |-> ToUpper(s[i])]

Lower(s) == [i \in 1..Len(s) |-> ToLower(s[i])]

\* the first character upper-cased, the rest of the text as it is
UpperFirstKeepRest(s) == [i \in 1..Len(s) |-> IF i = 1 THEN ToUpper(s[i]) ELSE s[i]]

\* s.capitalize(): the first character upper-cased, the rest lower-cased
Capitalize(s) == [i \in 1..Len(s) |-> IF i = 1 THEN ToUpper(s[i]) ELSE ToLower(s[i])]

\* the length of the longest prefix of s whose characters are all in S
SpanLen(s, S) == Cardinality({i \in 1..Len(s) : \A j \in 1..i : s[j] \in S})

Drop(s, n) == SubSeq(s, n + 1, Len(s))

Take(s, n) == SubSeq(s, 1, n)

Reverse(s) == [i \in 1..Len(s) |-> s[Len(s) + 1 - i]]

\* s.strip()
LStrip(s) == Drop(s, SpanLen(s, Whitespace))

RStrip(s) == Take(s, Len(s) - SpanLen(Reverse(s), Whitespace))

Strip(s) == RStrip(LStrip(s))

\* x in s, for a character x
Contains(s, c) == \E i \in 1..Len(s) : s[i] = c

\* the n-th smallest number of the set P
NthOf(P, n) == CHOOSE i \in P : Cardinality({j \in P : j < i}) = n - 1

\* the places where a run of characters other than whitespace starts
WordStarts(s) ==
    {i \in 1..Len(s) : s[i] \notin Whitespace /\ (i = 1 \/ s[i - 1] \in Whitespace)}

\* the run of characters other than whitespace that starts at place i
WordAt(s, i) == Take(Drop(s, i - 1), SpanLen(Drop(s, i - 1), Chars \ Whitespace))

Words(s) == [n \in 1..Cardinality(WordStarts(s)) |-> WordAt(s, NthOf(WordStarts(s), n))]

\* re.split("\s+", s): the pieces between the runs of whitespace; a run at
\* either end leaves an empty piece there
ReSplit(s) ==
    (IF s = <<>> \/ Head(s) \in Whitespace THEN <<<<>>>> ELSE <<>>)
        \o Words(s)
        \o (IF s # <<>> /\ s[Len(s)] \in Whitespace THEN <<<<>>>> ELSE <<>>)

(***************************************************************************)
(* Typed values.  A float is the decimal s * m * 10^e with m >= 0 not a    *)
(* multiple of ten (zero is m = 0, e = 0); the inputs of the model keep    *)
(* within the precision and the range of a double, where float() and       *)
(* str() are exact on decimals.                                            *)
(***************************************************************************)
IntV(n) == [t |-> "int", v |-> n]

FloatV(sg, m, e) == [t |-> "float", s |-> sg, m |-> m, e |-> e]

ListV(q) == [t |-> "list", v |-> q]

TextV(s) == [t |-> "str", v |-> s]

BoolV(b) == [t |-> "bool", v |-> b]

\* what int() and float() raise on text that is no number
ValueError == [t |-> "ValueError"]

\* the number that a text of digits writes
RECURSIVE NatOf(_)
NatOf(ds) ==
    IF ds = <<>> THEN 0 ELSE 10 * NatOf(Take(ds, Len(ds) - 1)) + DigitVal(ds[Len(ds)])

\* the sign a text starts with, and the text after it
SignOf(s) == IF s # <<>> /\ Head(s) = "-" THEN -1 ELSE 1

AfterSign(s) == IF s # <<>> /\ Head(s) \in {"+", "-"} THEN Tail(s) ELSE s

\* int(s): blanks stripped, an optional sign, one or more digits
IntOfBody(sg, body) ==
    IF body # <<>> /\ SpanLen(body, Digits) = Len(body)
    THEN IntV(sg * NatOf(body))
    ELSE ValueError

IntOfStripped(t0) == IntOfBody(SignOf(t0), AfterSign(t0))

ParseInt(s) == IntOfStripped(Strip(s))

\* a decimal with the trailing zeros of its mantissa moved into its exponent
RECURSIVE Normalize(_, _, _)
Normalize(sg, m, e) ==
    IF m = 0 THEN FloatV(sg, 0, 0)
    ELSE IF m % 10 = 0 THEN Normalize(sg, m \div 10, e + 1)
    ELSE FloatV(sg, m, e)

\* float(s): blanks stripped, an optional sign, digits with an optional point
\* (at least one digit in all), an optional exponent: e or E, an optional
\* sign, one or more digits.  The text is read from the left, each operator
\* taking what the ones before it have read: the sign sg, the digits ip
\* before the point, the digits fp after it.
FloatExpDigits(sg, ip, fp, esg, exd) ==
    IF exd # <<>> /\ SpanLen(exd, Digits) = Len(exd)
    THEN Normalize(sg, NatOf(ip \o fp), esg * NatOf(exd) - Len(fp))
    ELSE ValueError

FloatExponent(sg, ip, fp, r) ==
    IF ip \o fp = <<>> THEN ValueError
    ELSE IF r = <<>> THEN Normalize(sg, NatOf(ip \o fp), 0 - Len(fp))
    ELSE IF Head(r) \in {"e", "E"}
         THEN FloatExpDigits(sg, ip, fp, SignOf(Tail(r)), AfterSign(Tail(r)))
    ELSE ValueError

FloatFraction(sg, ip, r, n2) == FloatExponent(sg, ip, Take(r, n2), Drop(r, n2))

FloatPoint(sg, body, n1) ==
    IF Len(body) > n1 /\ body[n1 + 1] = "."
    THEN FloatFraction(sg, Take(body, n1), Drop(body, n1 + 1),
                       SpanLen(Drop(body, n1 + 1), Digits))
    ELSE FloatExponent(sg, Take(body, n1), <<>>, Drop(body, n1))

FloatOfBody(sg, body) == FloatPoint(sg, body, SpanLen(body, Digits))

FloatOfStripped(t0) == FloatOfBody(SignOf(t0), AfterSign(t0))

ParseFloat(s) == FloatOfStripped(Strip(s))

(***************************************************************************)
(* FeffTags.proc_val: the coercion of a text value.                        *)
(***************************************************************************)
VALID_FEFF_TAGS ==
    {<<"C", "O", "N", "T", "R", "O", "L">>, <<"P", "R", "I", "N", "T">>,
     <<"A", "T", "O", "M", "S">>, <<"P", "O", "T", "E", "N", "T", "I", "A", "L", "S">>,
     <<"R", "E", "C", "I", "P", "R", "O", "C", "A", "L">>, <<"R", "E", "A", "L">>,
     <<"M", "A", "R", "K", "E", "R">>, <<"L", "A", "T", "T", "I", "C", "E">>,
     <<"T", "I", "T", "L", "E">>, <<"R", "M", "U", "L", "T", "I", "P", "L", "I", "E", "R">>,
     <<"S", "G", "R", "O", "U", "P">>, <<"C", "O", "O", "R", "D", "I", "N", "A", "T", "E", "S">>,
     <<"E", "Q", "U", "I", "V", "A", "L", "E", "N", "C", "E">>, <<"C", "I", "F">>,
     <<"C", "G", "R", "I", "D">>, <<"C", "F", "A", "V", "E", "R", "A", "G", "E">>,
     <<"O", "V", "E", "R", "L", "A", "P">>, <<"E", "X", "A", "F", "S">>,
     <<"X", "A", "N", "E", "S">>, <<"E", "L", "N", "E", "S">>, <<"E", "X", "E", "L", "F", "S">>,
     <<"L", "D", "O", "S">>, <<"E", "L", "L", "I", "P", "T", "I", "C", "I", "T", "Y">>,
     <<"M", "U", "L", "T", "I", "P", "O", "L", "E">>,
     <<"P", "O", "L", "A", "R", "I", "Z", "A", "T", "I", "O", "N">>,
     <<"R", "H", "O", "Z", "Z", "P">>, <<"D", "A", "N", "E", "S">>,
     <<"F", "P", "R", "I", "M", "E">>, <<"N", "R", "I", "X", "S">>, <<"X", "E", "S">>,
     <<"X", "N", "C", "D">>, <<"X", "M", "C", "D">>,
     <<"X", "N", "C", "D", "C", "O", "N", "T", "R", "O", "L">>, <<"E", "N", "D">>,
     <<"K", "M", "E", "S", "H">>, <<"P", "R", "I", "N", "T">>, <<"E", "G", "R", "I", "D">>,
     <<"D", "I", "M", "S">>, <<"A", "F", "O", "L", "P">>, <<"E", "D", "G", "E">>,
     <<"C", "O", "M", "P", "T", "O", "N">>, <<"D", "A", "N", "E", "S">>,
     <<"F", "P", "R", "I", "M", "E", "M", "D", "F", "F">>, <<"H", "O", "L", "E">>,
     <<"C", "O", "R", "E", "H", "O", "L", "E">>, <<"S", "0", "2">>,
     <<"C", "H", "B", "R", "O", "A", "D">>, <<"E", "X", "C", "H", "A", "N", "G", "E">>,
     <<"F", "O", "L", "P">>, <<"N", "O", "H", "O", "L", "E">>, <<"R", "G", "R", "I", "D">>,
     <<"S", "C", "F">>, <<"U", "N", "F", "R", "E", "E", "Z", "E", "F">>,
     <<"C", "H", "S", "H", "I", "F", "T">>, <<"D", "E", "B", "Y", "E">>,
     <<"I", "N", "T", "E", "R", "S", "T", "I", "T", "I", "A", "L">>,
     <<"C", "H", "W", "I", "D", "T", "H">>, <<"E", "G", "A", "P">>, <<"E", "P", "S", "0">>,
     <<"E", "X", "T", "P", "O", "T">>, <<"I", "O", "N">>, <<"J", "U", "M", "P", "R", "M">>,
     <<"E", "X", "P", "O", "T">>, <<"S", "P", "I", "N">>, <<"L", "J", "M", "A", "X">>,
     <<"L", "D", "E", "C">>, <<"M", "P", "S", "E">>, <<"P", "L", "A", "S", "M", "O", "N">>,
     <<"R", "P", "H", "A", "S", "E", "S">>, <<"R", "S", "I", "G", "M", "A">>,
     <<"P", "M", "B", "S", "E">>, <<"T", "D", "L", "D", "A">>, <<"F", "M", "S">>,
     <<"D", "E", "B", "Y", "A">>, <<"O", "P", "C", "O", "N", "S">>, <<"P", "R", "E", "P">>,
     <<"R", "E", "S", "T", "A", "R", "T">>, <<"S", "C", "R", "E", "E", "N">>,
     <<"S", "E", "T", "E">>, <<"S", "T", "R", "F", "A", "C", "T", "O", "R", "S">>,
     <<"B", "A", "N", "D", "S", "T", "R", "U", "C", "T", "U", "R", "E">>,
     <<"R", "P", "A", "T", "H">>, <<"N", "L", "E", "G">>,
     <<"P", "C", "R", "I", "T", "E", "R", "I", "A">>, <<"S", "Y", "M", "M", "E", "T", "R", "Y">>,
     <<"S", "S">>, <<"C", "R", "I", "T", "E", "R", "I", "A">>, <<"I", "O", "R", "D", "E", "R">>,
     <<"N", "S", "T", "A", "R">>, <<"A", "B", "S", "O", "L", "U", "T", "E">>,
     <<"C", "O", "R", "R", "E", "C", "T", "I", "O", "N", "S">>, <<"S", "I", "G", "2">>,
     <<"S", "I", "G", "3">>, <<"M", "B", "C", "O", "N", "V">>, <<"S", "F", "C", "O", "N", "V">>,
     <<"R", "C", "O", "N", "V">>, <<"S", "E", "L", "F">>, <<"S", "F", "S", "E">>,
     <<"M", "A", "G", "I", "C">>}

list_type_keys == VALID_FEFF_TAGS

boolean_type_keys == {}

float_type_keys ==
    {<<"S", "C", "F">>, <<"E", "X", "C", "H", "A", "N", "G", "E">>, <<"S", "0", "2">>,
     <<"F", "M", "S">>, <<"X", "A", "N", "E", "S">>, <<"E", "X", "A", "F", "S">>,
     <<"R", "P", "A", "T", "H">>, <<"L", "D", "O", "S">>}

int_type_keys == {<<"P", "R", "I", "N", "T">>, <<"C", "O", "N", "T", "R", "O", "L">>}

\* smart_int_or_float(numstr)
smart_int_or_float(numstr) ==
    IF Contains(numstr, ".") \/ Contains(Lower(numstr), "e")
    THEN ParseFloat(numstr)
    ELSE ParseInt(numstr)

\* the characters of the class [\d\.\-\+]
ScalarClass == Digits \cup {".", "-", "+"}

\* re.match("(\d+)\*([\d\.\-\+]+)", tok): a match is at the start of tok and
\* need not reach its end; group 1 is the leading digits (n of them), group 2
\* the longest run of class characters after the star
MatchGroups(tok, n, k) ==
    IF n >= 1 /\ Len(tok) > n /\ tok[n + 1] = "*" /\ k >= 1
    THEN [ok |-> TRUE, g1 |-> Take(tok, n), g2 |-> SubSeq(tok, n + 2, n + 1 + k)]
    ELSE [ok |-> FALSE, g1 |-> <<>>, g2 |-> <<>>]

MatchAfterDigits(tok, n) == MatchGroups(tok, n, SpanLen(Drop(tok, n + 1), ScalarClass))

MatchRepeat(tok) == MatchAfterDigits(tok, SpanLen(tok, Digits))

\* [x] * n
RECURSIVE Repeat(_, _)
Repeat(x, n) == IF n <= 0 THEN <<>> ELSE <<x>> \o Repeat(x, n - 1)

IsValueError(r) == r.t = "ValueError"

\* output.extend([smart_int_or_float(m.group(2))] * int(m.group(1))), given
\* what smart_int_or_float returned or raised
ExtendWith(x, g1) ==
    IF IsValueError(x) THEN ValueError ELSE ListV(Repeat(x, ParseInt(g1).v))

\* output.append(smart_int_or_float(tok)), likewise
AppendWith(x) == IF IsValueError(x) THEN ValueError ELSE ListV(<<x>>)

\* what one token adds to output, given the match m of the pattern
TokenOfMatch(tok, m) ==
    IF m.ok THEN ExtendWith(smart_int_or_float(m.g2), m.g1)
    ELSE AppendWith(smart_int_or_float(tok))

\* what one token adds to output: a list of numbers, or the ValueError that
\* smart_int_or_float raises
TokenValues(tok) == TokenOfMatch(tok, MatchRepeat(tok))

\* the loop over toks: output, or ValueError from the first token that raises
RECURSIVE ListOutput(_, _)
RECURSIVE ListStep(_, _, _)
ListStep(xs, rest, output) ==
    IF IsValueError(xs) THEN ValueError ELSE ListOutput(rest, output \o xs.v)

ListOutput(toks, output) ==
    IF toks = <<>> THEN ListV(output)
    ELSE ListStep(TokenValues(Head(toks)), Tail(toks), output)

\* re.search("^\W+([TtFf])", val): one or more non-word characters, then
\* one of T, t, F, f
NonWord == {"\n", " ", "#", "*", "+", "-", "."}

BoolOfSpan(val, n) ==
    IF n >= 1 /\ Len(val) > n /\ val[n + 1] \in {"T", "t", "F", "f"}
    THEN BoolV(val[n + 1] \in {"T", "t"})
    ELSE ValueError

BoolOutput(val) == BoolOfSpan(val, SpanLen(val, NonWord))

\* the try block with the scalar classes looked up before the list class
TryBlockScalarFirst(key, val) ==
    IF key \in float_type_keys THEN ParseFloat(val)
    ELSE IF key \in int_type_keys THEN ParseInt(val)
    ELSE IF key \in list_type_keys THEN ListOutput(ReSplit(val), <<>>)
    ELSE IF key \in boolean_type_keys THEN BoolOutput(val)
    ELSE [t |-> "fallthrough"]

\* the body of the try block
TryBlock(key, val) ==
    IF key \in list_type_keys THEN ListOutput(ReSplit(val), <<>>)
    ELSE IF key \in boolean_type_keys THEN BoolOutput(val)
    ELSE IF key \in float_type_keys THEN ParseFloat(val)
    ELSE IF key \in int_type_keys THEN ParseInt(val)
    ELSE [t |-> "fallthrough"]

\* except ValueError: return val.capitalize(), and the same return after the
\* try block when no branch returned
Fallback(r, val) ==
    IF IsValueError(r) \/ r.t = "fallthrough" THEN TextV(Capitalize(val)) ELSE r

\* FeffTags.proc_val(key, val)
proc_val(key, val) == Fallback(TryBlock(key, val), val)

(***************************************************************************)
(* proc_val as a function of its arguments.                                *)
(***************************************************************************)
EXAFS == <<"E", "X", "A", "F", "S">>

SCF == <<"S", "C", "F">>

CONTROL == <<"C", "O", "N", "T", "R", "O", "L">>

FOO == <<"F", "O", "O">>

\* keys given to proc_val: three of the vocabulary (two of them float keys,
\* one an int key), one outside it, one in lower case
CoerceKeys == {EXAFS, SCF, CONTROL, FOO, <<"e", "x", "a", "f", "s">>}

CoerceTokens ==
    {<<"3", "*", "1", ".", "5">>,
     <<"2", ".", "0">>,
     <<"7">>,
     <<"7", ".", "0">>,
     <<"k">>,
     <<"f", "S", "R">>,
     <<"2", "*", "1", "e", "5">>,
     <<"2", "*", "3", "x">>,
     <<"0", "*", "1", ".", "5">>,
     <<"1", "E", "5">>,
     <<"-", "2", ".", "5">>,
     <<"3", "*">>}

\* " ".join(toks)
RECURSIVE JoinSpace(_)
JoinSpace(toks) ==
    IF toks = <<>> THEN <<>>
    ELSE IF Len(toks) = 1 THEN toks[1]
    ELSE toks[1] \o <<" ">> \o JoinSpace(Tail(toks))

\* values given to proc_val: up to MaxToks tokens a blank apart, and values
\* with a leading blank, a run of blanks and a line break
CoerceValues ==
    {JoinSpace(q) : q \in UNION {[1..n -> CoerceTokens] : n \in 0..MaxToks}}
        \cup {<<" ", "7">>, <<"7", " ", " ", "2", ".", "0">>, <<"7", "\n", "2", ".", "0">>}

CoerceInit ==
    /\ IdleAtoms /\ IdleTags /\ IdleParse /\ IdlePot
    /\ c_key \in CoerceKeys
    /\ c_val \in CoerceValues
    /\ c_out = <<>>
    /\ cpc = "call"

ProcVal ==
    /\ cpc = "call"
    /\ c_out' = proc_val(c_key, c_val)
    /\ cpc' = "return"
    /\ UNCHANGED <<c_key, c_val>>

CoerceNext == ProcVal /\ UNCHANGED <<avars, tvars, pvars, fvars>>

SpecCoerce == CoerceInit /\ [][CoerceNext]_vars

(***************************************************************************)
(* Claims about proc_val.                                                  *)
(***************************************************************************)
Returned == cpc = "return"

\* a token of the form COUNT*SCALAR: digits, a star, and a scalar after it
IsRepeatForm(tok) ==
    LET n == SpanLen(tok, Digits)
    IN  /\ n >= 1 /\ Len(tok) > n + 1 /\ tok[n + 1] = "*"
        /\ ~IsValueError(smart_int_or_float(Drop(tok, n + 1)))

\* what the rule of C4 gives for one token
RuleTokenValues(tok) ==
    LET n == SpanLen(tok, Digits)
    IN  IF IsRepeatForm(tok)
        THEN ListV(Repeat(smart_int_or_float(Drop(tok, n + 1)), NatOf(Take(tok, n))))
        ELSE IF IsValueError(smart_int_or_float(tok)) THEN ValueError
        ELSE ListV(<<smart_int_or_float(tok)>>)

\* what the rule of C4 gives for the tokens of a value, in token order
RECURSIVE RuleList(_)
RuleList(toks) ==
    IF toks = <<>> THEN ListV(<<>>)
    ELSE LET h == RuleTokenValues(Head(toks))
             r == RuleList(Tail(toks))
         IN  IF IsValueError(h) \/ IsValueError(r) THEN ValueError
             ELSE ListV(h.v \o r.v)

\* C4: on a list-capable key, a value whose tokens are all scalars or of the
\* form COUNT*SCALAR is returned as the list that concatenates, in token
\* order, COUNT copies of the scalar for each COUNT*SCALAR token and the
\* scalar for every other token.
C4_ListOfExpandedTokens ==
    (Returned /\ c_key \in list_type_keys /\ ~IsValueError(RuleList(ReSplit(c_val))))
        => c_out = RuleList(ReSplit(c_val))

\* C5 as stated: coerce("SCF", "7") is the integer 7 and coerce("SCF", "7.0")
\* is the text "7.0": the scalar class of the key comes before list parsing.
C5_ScalarClassFirst ==
    Returned =>
        /\ (c_key = SCF /\ c_val = <<"7">>) => c_out = IntV(7)
        /\ (c_key = SCF /\ c_val = <<"7", ".", "0">>) => c_out = TextV(<<"7", ".", "0">>)

\* C5 amended: coerce("SCF", "7") is the one-element list [7] and
\* coerce("SCF", "7.0") is the one-element list [7.0]: every key of the
\* float and integer class sets is in the vocabulary, list parsing comes
\* first, and such a key never yields a bare number.
C5_ListParsingFirst ==
    Returned =>
        /\ (c_key = SCF /\ c_val = <<"7">>) => c_out = ListV(<<IntV(7)>>)
        /\ (c_key = SCF /\ c_val = <<"7", ".", "0">>) => c_out = ListV(<<FloatV(1, 7, 0)>>)
        /\ c_key \in float_type_keys \cup int_type_keys => c_out.t \in {"list", "str"}

C5_Witness == Returned /\ c_key = SCF /\ c_val = <<"7", ".", "0">> /\ c_out.t = "list"

\* a value that cannot be parsed: it is empty, or one of its tokens starts
\* with a letter
HasLetterToken(val) ==
    \E i \in 1..Len(ReSplit(val)) :
        LET tok == ReSplit(val)[i] IN tok # <<>> /\ (IsUpper(tok[1]) \/ IsLower(tok[1]))

\* C6 as stated: proc_val never raises, and a value that fails to parse is
\* returned as text with its first letter upper-cased and the case of the
\* remaining characters unchanged.
C6_FallbackKeepsCase ==
    Returned =>
        /\ c_out.t \in {"list", "str"}
        /\ (c_val = <<>> \/ HasLetterToken(c_val)) => c_out.t = "str"
        /\ c_out.t = "str" => c_out.v = UpperFirstKeepRest(c_val)

\* C6 amended: proc_val never raises, and a value that fails to parse
\* (an empty value and a value with an unparsable token among parsable ones
\* included) is returned whole as text with its first character upper-cased
\* and all remaining characters lower-cased.
C6_FallbackCapitalized ==
    Returned =>
        /\ c_out.t \in {"list", "str"}
        /\ (c_val = <<>> \/ HasLetterToken(c_val)) => c_out.t = "str"
        /\ c_out.t = "str" =>
               /\ Len(c_out.v) = Len(c_val)
               /\ \A i \in 1..Len(c_val) :
                      c_out.v[i] = IF i = 1 THEN ToUpper(c_val[i]) ELSE ToLower(c_val[i])

\* a parsable token followed by a token with upper-case letters after its
\* first, returned as text
C6_Witness ==
    /\ Returned /\ c_key = EXAFS
    /\ c_val = <<"7", " ", "f", "S", "R">>
    /\ c_out = TextV(<<"7", " ", "f", "s", "r">>)

(***************************************************************************)
(* FeffTags, a dict: a sequence of items [k, v] with distinct keys, in     *)
(* the order of their insertion.                                           *)
(***************************************************************************)
DictKeys(d) == {d[i].k : i \in 1..Len(d)}

\* k in d
HasKey(d, k) == \E i \in 1..Len(d) : d[i].k = k

\* the place of key k in d
KeyIndex(d, k) == CHOOSE i \in 1..Len(d) : d[i].k = k

\* d[k]
DictGet(d, k) == d[KeyIndex(d, k)].v

\* d with the item at place i replaced
DictReplace(d, i, item) == SubSeq(d, 1, i - 1) \o <<item>> \o SubSeq(d, i + 1, Len(d))

\* dict.__setitem__: d[k] = v; a key that is present keeps its place
DictSet(d, k, v) ==
    IF HasKey(d, k) THEN DictReplace(d, KeyIndex(d, k), [k |-> k, v |-> v])
    ELSE Append(d, [k |-> k, v |-> v])

\* dict.update(params): the items of params are stored as they are
RECURSIVE DictUpdate(_, _)
DictUpdate(d, params) ==
    IF params = <<>> THEN d
    ELSE DictUpdate(DictSet(d, Head(params).k, Head(params).v), Tail(params))

\* FeffTags(params)
FeffTags(params) == DictUpdate(<<>>, params)

\* float("nan"), the float that no float equals
NaN == [t |-> "nan"]

\* 10^n
RECURSIVE Pow10(_)
Pow10(n) == IF n <= 0 THEN 1 ELSE 10 * Pow10(n - 1)

\* Python's == on two numbers: an int and a float are equal when they are
\* the same number
IntEqFloat(n, f) ==
    IF f.m = 0 THEN n = 0
    ELSE f.e >= 0 /\ f.e <= 8 /\ n = f.s * f.m * Pow10(f.e)

NumEq(a, b) ==
    IF a.t = "int" /\ b.t = "int" THEN a.v = b.v
    ELSE IF a.t = "int" /\ b.t = "float" THEN IntEqFloat(a.v, b)
    ELSE IF a.t = "float" /\ b.t = "int" THEN IntEqFloat(b.v, a)
    ELSE IF a.t = "float" /\ b.t = "float"
         THEN (a.m = 0 /\ b.m = 0) \/ (a.s = b.s /\ a.m = b.m /\ a.e = b.e)
    ELSE FALSE    \* a number and text, or float("nan") on either side

\* Python's == on two values
PyEq(a, b) ==
    IF a.t = "list" /\ b.t = "list"
    THEN Len(a.v) = Len(b.v) /\ \A i \in 1..Len(a.v) : NumEq(a.v[i], b.v[i])
    ELSE IF a.t = "str" /\ b.t = "str" THEN a.v = b.v
    ELSE IF a.t = "bool" /\ b.t = "bool" THEN a.v = b.v
    ELSE NumEq(a, b)

\* FeffTags.__setitem__(key, val): val.strip() is coerced when val is text
StoredValue(key, val) ==
    IF val.t = "str" THEN proc_val(Strip(key), Strip(val.v)) ELSE val

\* whether __setitem__ warns that the key is not a valid tag
Warns(key) == Upper(Strip(key)) \notin VALID_FEFF_TAGS

\* the assignment with the key stored as it was given, blanks and all
SetItemUntrimmed(d, key, val) == DictSet(d, key, StoredValue(key, val))

\* super().__setitem__(key.strip(), ...)
SetItem(d, key, val) == DictSet(d, Strip(key), StoredValue(key, val))

\* the loop that never raises on a conflict
RECURSIVE AddLoopNoConflict(_, _, _)
AddLoopNoConflict(self, items, params) ==
    IF items = <<>> THEN [status |-> "ok", params |-> params]
    ELSE AddLoopNoConflict(self, Tail(items),
                           DictSet(params, Head(items).k, Head(items).v))

\* params bound to the object self itself
AddParamsAliased(self) == [obj |-> "self", items |-> self]

\* params = {k: v for k, v in self.items()}: a dict of its own, holding the
\* items of self
AddParams(self) == [obj |-> "params", items |-> self]

\* FeffTags.__add__(other): the loop over other.items(), params being a copy
\* of self to start with
RECURSIVE AddLoop(_, _, _)
AddLoop(self, items, params) ==
    IF items = <<>> THEN [status |-> "ok", params |-> params]
    ELSE IF HasKey(self, Head(items).k)
            /\ ~PyEq(Head(items).v, DictGet(self, Head(items).k))
         THEN [status |-> "ValueError", params |-> <<>>]
    ELSE AddLoop(self, Tail(items), DictSet(params, Head(items).k, Head(items).v))

\* return FeffTags(params)
AddResult(r) ==
    IF r.status = "ok" THEN [status |-> "ok", tags |-> FeffTags(r.params)]
    ELSE [status |-> r.status, tags |-> <<>>]

Add(self, other) == AddResult(AddLoop(self, other, self))

\* the sentinel of diff for a key missing on one side
Default == TextV(<<"D", "e", "f", "a", "u", "l", "t">>)

Pair(v1, v2) == [FEFF_TAGS1 |-> v1, FEFF_TAGS2 |-> v2]

\* FeffTags.diff: the loop over self.items()
RECURSIVE DiffSelf(_, _, _)
DiffSelf(items, other, r) ==
    IF items = <<>> THEN r
    ELSE IF ~HasKey(other, Head(items).k)
         THEN DiffSelf(Tail(items), other,
                  [r EXCEPT !.Different =
                       DictSet(@, Head(items).k, Pair(Head(items).v, Default))])
    ELSE IF ~PyEq(Head(items).v, DictGet(other, Head(items).k))
         THEN DiffSelf(Tail(items), other,
                  [r EXCEPT !.Different =
                       DictSet(@, Head(items).k,
                               Pair(Head(items).v, DictGet(other, Head(items).k)))])
    ELSE DiffSelf(Tail(items), other,
             [r EXCEPT !.Same = DictSet(@, Head(items).k, Head(items).v)])

\* FeffTags.diff: the loop over other.items()
RECURSIVE DiffOther(_, _, _)
DiffOther(items, self, r) ==
    IF items = <<>> THEN r
    ELSE IF /\ ~HasKey(r.Same, Head(items).k)
            /\ ~HasKey(r.Different, Head(items).k)
            /\ ~HasKey(self, Head(items).k)
         THEN DiffOther(Tail(items), self,
                  [r EXCEPT !.Different =
                       DictSet(@, Head(items).k, Pair(Default, Head(items).v))])
    ELSE DiffOther(Tail(items), self, r)

Diff(self, other) ==
    DiffOther(other, self, DiffSelf(self, other, [Same |-> <<>>, Different |-> <<>>]))

(***************************************************************************)
(* A FeffTags object under assignment, merge and diff.                     *)
(***************************************************************************)
\* a name that is no tag of the vocabulary
foo == <<"f", "o", "o">>

\* names given to __setitem__: a tag, a name outside the vocabulary with
\* blanks around it, and a tag spelled in lower case
SetNames == {EXAFS, <<" ", "f", "o", "o", " ">>, <<"e", "x", "a", "f", "s">>}

\* values given to __setitem__: three texts and one float
SetValues == {TextV(<<"7">>), TextV(<<"7", ".", "0">>), TextV(<<" ", "k", " ">>), NaN}

\* the dicts given to FeffTags(params) for the second object
OtherParams ==
    {<<>>,
     <<[k |-> EXAFS, v |-> ListV(<<IntV(7)>>)]>>,
     <<[k |-> EXAFS, v |-> ListV(<<FloatV(1, 7, 0)>>)]>>,
     <<[k |-> EXAFS, v |-> TextV(<<"K">>)]>>,
     <<[k |-> foo, v |-> TextV(<<"K">>)]>>,
     <<[k |-> foo, v |-> TextV(<<"k">>)]>>,
     <<[k |-> EXAFS, v |-> ListV(<<FloatV(1, 7, 0)>>)], [k |-> foo, v |-> TextV(<<"k">>)],
       [k |-> SCF, v |-> ListV(<<IntV(7)>>)]>>,
     <<[k |-> EXAFS, v |-> ListV(<<IntV(7)>>)], [k |-> foo, v |-> TextV(<<"K">>)]>>,
     <<[k |-> foo, v |-> ListV(<<IntV(7)>>)], [k |-> EXAFS, v |-> ListV(<<FloatV(1, 7, 0)>>)]>>}

TagsInit ==
    /\ IdleAtoms /\ IdleCoerce /\ IdleParse /\ IdlePot
    /\ t_self = FeffTags(<<>>)
    /\ t_other \in {FeffTags(params) : params \in OtherParams}
    /\ t_out = [op |-> "init"]

TagsSetItem ==
    \E key \in SetNames, val \in SetValues :
        /\ t_self' = SetItem(t_self, key, val)
        /\ t_out' = [op |-> "set", warned |-> Warns(key)]
        /\ UNCHANGED t_other

\* t_self + other, other being the second object or t_self itself
TagsAdd ==
    \E other \in {t_self, t_other} :
        /\ t_out' = [op |-> "add", other |-> other, ret |-> Add(t_self, other)]
        /\ UNCHANGED <<t_self, t_other>>

\* t_self.diff(other), other being the second object or t_self itself
TagsDiff ==
    \E other \in {t_self, t_other} :
        /\ t_out' = [op |-> "diff", other |-> other, ret |-> Diff(t_self, other)]
        /\ UNCHANGED <<t_self, t_other>>

TagsNext ==
    \/ TagsSetItem /\ UNCHANGED <<avars, cvars, pvars, fvars>>
    \/ TagsAdd /\ UNCHANGED <<avars, cvars, pvars, fvars>>
    \/ TagsDiff /\ UNCHANGED <<avars, cvars, pvars, fvars>>

SpecTags == TagsInit /\ [][TagsNext]_vars

(***************************************************************************)
(* Claims on merge and diff.                                               *)
(***************************************************************************)
\* the same value, of the same type and spelling
Identical(a, b) == a.t = b.t /\ a = b

\* some key is in both stores with unequal values
Conflict(a, b) ==
    \E k \in DictKeys(a) \cap DictKeys(b) : ~PyEq(DictGet(a, k), DictGet(b, k))

\* the value k had in the stores it came from
CameFrom(a, b, k, v) ==
    /\ HasKey(b, k) => Identical(v, DictGet(b, k))
    /\ ~HasKey(b, k) => Identical(v, DictGet(a, k))
    /\ (HasKey(a, k) /\ HasKey(b, k)) => PyEq(DictGet(a, k), DictGet(b, k))

MergeAsStated(a, b, ret) ==
    /\ (ret.status = "ValueError") <=> Conflict(a, b)
    /\ ~Conflict(a, b) =>
          /\ ret.status = "ok"
          /\ DictKeys(ret.tags) = DictKeys(a) \cup DictKeys(b)
          /\ \A k \in DictKeys(ret.tags) : CameFrom(a, b, k, DictGet(ret.tags, k))

\* C7: __add__ raises the conflict error exactly when some key is in both
\* stores with unequal values; otherwise the store it returns has the union
\* of the keys, each with the value it had in the store it came from, not
\* coerced again.
C7_MergeUnionOrConflict ==
    (t_out # <<>> /\ t_out.op = "add") => MergeAsStated(t_self, t_out.other, t_out.ret)

\* a merge that succeeds with a key of both stores, a key of t_self alone and
\* a key of the other store alone, one of whose texts coercion would change
C7_Witness ==
    /\ t_out # <<>> /\ t_out.op = "add" /\ t_out.ret.status = "ok"
    /\ DictKeys(t_self) \cap DictKeys(t_out.other) # {}
    /\ DictKeys(t_self) \ DictKeys(t_out.other) # {}
    /\ \E k \in DictKeys(t_out.other) \ DictKeys(t_self) :
          /\ DictGet(t_out.other, k).t = "str"
          /\ DictGet(t_out.other, k).v # Capitalize(DictGet(t_out.other, k).v)

\* the entry of "Different" the claim gives to key k
DifferentAsStated(a, b, k) ==
    IF ~HasKey(b, k) THEN Pair(DictGet(a, k), Default)
    ELSE IF ~HasKey(a, k) THEN Pair(Default, DictGet(b, k))
    ELSE Pair(DictGet(a, k), DictGet(b, k))

InBothEqual(a, b, k) ==
    HasKey(a, k) /\ HasKey(b, k) /\ PyEq(DictGet(a, k), DictGet(b, k))

SamePair(p, q) ==
    Identical(p.FEFF_TAGS1, q.FEFF_TAGS1) /\ Identical(p.FEFF_TAGS2, q.FEFF_TAGS2)

\* "Same" and "Different" partition the union of the keys as claimed
DiffPartitions(a, b, ret) ==
    /\ DictKeys(ret.Same) \cup DictKeys(ret.Different) = DictKeys(a) \cup DictKeys(b)
    /\ DictKeys(ret.Same) \cap DictKeys(ret.Different) = {}
    /\ \A k \in DictKeys(a) \cup DictKeys(b) :
          /\ HasKey(ret.Same, k) <=> InBothEqual(a, b, k)
          /\ HasKey(ret.Same, k) => Identical(DictGet(ret.Same, k), DictGet(a, k))
          /\ HasKey(ret.Different, k) =>
                SamePair(DictGet(ret.Different, k), DifferentAsStated(a, b, k))

\* diff(S, S): every key in "Same", nothing in "Different"
DiffReflexive(a, b, ret) ==
    a = b => (DictKeys(ret.Same) = DictKeys(a) /\ ret.Different = <<>>)

\* C8 (the partition alone): each key of either store is in exactly one of
\* "Same" and "Different", with the values and the "Default" marks claimed.
C8_DiffPartitionOnly ==
    (t_out # <<>> /\ t_out.op = "diff") => DiffPartitions(t_self, t_out.other, t_out.ret)

\* C8: diff partitions the union of the keys into "Same" and "Different" as
\* claimed and, hence, the diff of a store with itself has every key in
\* "Same" and an empty "Different".
C8_DiffPartitionAndReflexive ==
    (t_out # <<>> /\ t_out.op = "diff") =>
        /\ DiffPartitions(t_self, t_out.other, t_out.ret)
        /\ DiffReflexive(t_self, t_out.other, t_out.ret)

(***************************************************************************)
(* FeffTags.get_string and FeffTags.from_file.                             *)
(***************************************************************************)
\* sep.join(parts)
RECURSIVE JoinWith(_, _)
JoinWith(sep, parts) ==
    IF parts = <<>> THEN <<>>
    ELSE IF Len(parts) = 1 THEN parts[1]
    ELSE parts[1] \o sep \o JoinWith(sep, Tail(parts))

\* c * n
Times(c, n) == [i \in 1..n |-> c]

\* str(n) of an int
StrInt(n) == IF n < 0 THEN <<"-">> \o StrNat(-n) ELSE StrNat(n)

\* the exponent of a float's repr: a sign and at least two digits
StrExponent(x) ==
    (IF x < 0 THEN <<"e", "-">> ELSE <<"e", "+">>)
        \o (IF Abs(x) < 10 THEN <<"0">> ELSE <<>>) \o StrNat(Abs(x))

\* the digits D with the decimal point after the first decpt of them
FloatFixed(D, decpt) ==
    IF decpt <= 0 THEN <<"0", ".">> \o Times("0", -decpt) \o D
    ELSE IF decpt >= Len(D) THEN D \o Times("0", decpt - Len(D)) \o <<".", "0">>
    ELSE Take(D, decpt) \o <<".">> \o Drop(D, decpt)

FloatSci(D, x) ==
    Take(D, 1) \o (IF Len(D) > 1 THEN <<".">> \o Drop(D, 1) ELSE <<>>) \o StrExponent(x)

\* repr of a float: positional for 1e-4 <= |f| < 1e16, with an exponent
\* otherwise
FloatRepr(D, decpt) ==
    IF decpt > -4 /\ decpt <= 16 THEN FloatFixed(D, decpt) ELSE FloatSci(D, decpt - 1)

StrFloat(f) ==
    (IF f.s < 0 THEN <<"-">> ELSE <<>>)
        \o (IF f.m = 0 THEN <<"0", ".", "0">>
            ELSE FloatRepr(StrNat(f.m), Len(StrNat(f.m)) + f.e))

\* str(v)
StrValue(v) ==
    IF v.t = "str" THEN v.v
    ELSE IF v.t = "int" THEN StrInt(v.v)
    ELSE IF v.t = "float" THEN StrFloat(v)
    ELSE <<"n", "a", "n">>

\* sorted(keys)
RECURSIVE InsertKey(_, _)
InsertKey(keys, k) ==
    IF keys = <<>> THEN <<k>>
    ELSE IF StrLess(k, Head(keys)) THEN <<k>> \o keys
    ELSE <<Head(keys)>> \o InsertKey(Tail(keys), k)

RECURSIVE SortedKeys(_)
SortedKeys(keys) ==
    IF keys = <<>> THEN <<>>
    ELSE InsertKey(SortedKeys(Take(keys, Len(keys) - 1)), keys[Len(keys)])

\* self.keys(), sorted when sort_keys is set
KeyOrder(d, sort_keys) ==
    IF sort_keys THEN SortedKeys([i \in 1..Len(d) |-> d[i].k])
    ELSE [i \in 1..Len(d) |-> d[i].k]

\* the second cell of a line: the scalars of a list joined by a blank, any
\* other value as it is
Cell(v) ==
    IF v.t = "list" THEN TextV(JoinWith(<<" ">>, [i \in 1..Len(v.v) |-> StrValue(v.v[i])]))
    ELSE v

\* lines: one [k, cell] for each key
TagLines(d, keys) == [i \in 1..Len(keys) |-> <<keys[i], StrValue(Cell(DictGet(d, keys[i])))>>]

\* str_delimited(lines, None, "  "): the cells of a line joined by the
\* delimiter, the lines by a newline
str_delimited(lines, delimiter) ==
    JoinWith(<<"\n">>, [i \in 1..Len(lines) |-> JoinWith(delimiter, lines[i])])

\* the width of column j
ColWidth(lines, j) ==
    CHOOSE w \in {Len(lines[i][j]) : i \in 1..Len(lines)} :
        \A i \in 1..Len(lines) : Len(lines[i][j]) <= w

PadTo(s, w) == s \o Times(" ", w - Len(s))

\* a table of two aligned columns between two rules
AlignedTable(lines, w1, w2) ==
    <<<<Times("-", w1), Times("-", w2)>>>>
        \o [i \in 1..Len(lines) |-> <<PadTo(lines[i][1], w1), PadTo(lines[i][2], w2)>>]
        \o <<<<Times("-", w1), Times("-", w2)>>>>

\* tabulate(lines): name and value in two aligned columns
tabulate(lines) ==
    IF lines = <<>> THEN <<>>
    ELSE str_delimited(AlignedTable(lines, ColWidth(lines, 1), ColWidth(lines, 2)),
                       <<" ", " ">>)

\* FeffTags.get_string(sort_keys, pretty)
get_string(d, sort_keys, pretty) ==
    IF pretty THEN tabulate(TagLines(d, KeyOrder(d, sort_keys)))
    ELSE str_delimited(TagLines(d, KeyOrder(d, sort_keys)), <<" ", " ">>)

\* the places where a line of the text starts
LineStarts(text) ==
    {i \in 1..Len(text) : i = 1 \/ text[i - 1] = "\n"}

\* the place where the line starting at i ends: its newline, or the end of
\* the text
LineEnd(text, i) ==
    IF \E j \in i..Len(text) : text[j] = "\n"
    THEN CHOOSE j \in i..Len(text) : text[j] = "\n" /\ \A h \in i..(j - 1) : text[h] # "\n"
    ELSE Len(text)

\* f.readlines(): the text cut after each newline
readlines(text) ==
    [n \in 1..Cardinality(LineStarts(text)) |->
        SubSeq(text, NthOf(LineStarts(text), n), LineEnd(text, NthOf(LineStarts(text), n)))]

\* a line without its comment, stripped
CleanLine(line) ==
    Strip(Take(line, SpanLen(line, Chars \ {"#"})))

\* clean_lines(lines): comments cut, lines stripped, empty lines dropped
RECURSIVE clean_lines(_)
clean_lines(lines) ==
    IF lines = <<>> THEN <<>>
    ELSE IF CleanLine(Head(lines)) = <<>> THEN clean_lines(Tail(lines))
    ELSE <<CleanLine(Head(lines))>> \o clean_lines(Tail(lines))

UpperCase == {c \in Chars : IsUpper(c)}

\* the length of the prefix of line that [A-Z]+\d*\d* matches, 0 for none
KeySpan(line) ==
    IF SpanLen(line, UpperCase) = 0 THEN 0
    ELSE SpanLen(line, UpperCase) + SpanLen(Drop(line, SpanLen(line, UpperCase)), Digits)

\* group 2 of the match: past the blanks, up to the end of the line
ValueGroup(rest) ==
    Take(Drop(rest, SpanLen(rest, Whitespace)),
         SpanLen(Drop(rest, SpanLen(rest, Whitespace)), Chars \ {"\n"}))

\* re.match("([A-Z]+\d*\d*)\s*(.*)", line), n being the length of the key
LineGroups(line, n) ==
    IF n = 0 THEN [ok |-> FALSE, key |-> <<>>, val |-> <<>>]
    ELSE [ok |-> TRUE, key |-> Strip(Take(line, n)), val |-> Strip(ValueGroup(Drop(line, n)))]

LineMatch(line) == LineGroups(line, KeySpan(line))

MarkerKeys ==
    {<<"A", "T", "O", "M", "S">>,
     <<"P", "O", "T", "E", "N", "T", "I", "A", "L", "S">>,
     <<"E", "N", "D">>,
     <<"T", "I", "T", "L", "E">>}

\* the body of the loop of from_file for one match
StoreMatch(params, m) ==
    IF m.ok /\ m.key \notin MarkerKeys THEN DictSet(params, m.key, proc_val(m.key, m.val))
    ELSE params

RECURSIVE FromLines(_, _)
FromLines(lines, params) ==
    IF lines = <<>> THEN params
    ELSE FromLines(Tail(lines), StoreMatch(params, LineMatch(Head(lines))))

\* FeffTags.from_file of a file holding text
from_file(text) == FeffTags(FromLines(clean_lines(readlines(text)), <<>>))

(***************************************************************************)
(* A parameter file read, written again and read again.                    *)
(***************************************************************************)
\* the most lines a file holds
MaxLines == 2

FileLines ==
    {<<"E", "X", "A", "F", "S", " ", "3", "*", "1", ".", "5", " ", "2", ".", "0">>,
     <<"E", "X", "A", "F", "S", " ", "7", ".", "0">>,
     <<"E", "D", "G", "E", " ", "k">>,
     <<"E", "x", "a", "f", "s", " ", "1", ".", "5">>,
     <<"e", "d", "g", "e", " ", "k">>,
     <<"T", "I", "T", "L", "E", " ", "f", "o", "o">>,
     <<"E", "N", "D">>,
     <<"E", "X", "A", "F", "S", " ", "0", "*", "1", ".", "5">>,
     <<"S", "0", "2", " ", "1", "E", "5">>,
     <<"X", "A", "N", "E", "S">>,
     <<" ", "S", "C", "F", " ", "7", " ", "#", " ", "c">>,
     <<"1", ".", "5", " ", "2">>,
     <<"R", "P", "A", "T", "H", " ", "1", "e", "-", "5", " ", "1", "E", "1", "6">>}

FileTexts ==
    {JoinWith(<<"\n">>, ls) : ls \in UNION {[1..n -> FileLines] : n \in 0..MaxLines}}

ParseInit ==
    /\ IdleAtoms /\ IdleCoerce /\ IdleTags /\ IdlePot
    /\ p_src \in FileTexts
    /\ p_tags = <<>> /\ p_mode = <<>> /\ p_text = <<>> /\ p_back = <<>>
    /\ ppc = "file"

ParseFromFile ==
    /\ ppc = "file"
    /\ p_tags' = from_file(p_src)
    /\ ppc' = "parsed"
    /\ UNCHANGED <<p_src, p_mode, p_text, p_back>>

ParseGetString ==
    /\ ppc = "parsed"
    /\ \E sort_keys \in BOOLEAN, pretty \in BOOLEAN :
          /\ p_mode' = [sort_keys |-> sort_keys, pretty |-> pretty]
          /\ p_text' = get_string(p_tags, sort_keys, pretty)
    /\ ppc' = "written"
    /\ UNCHANGED <<p_src, p_tags, p_back>>

ParseReadBack ==
    /\ ppc = "written"
    /\ p_back' = from_file(p_text)
    /\ ppc' = "reparsed"
    /\ UNCHANGED <<p_src, p_tags, p_mode, p_text>>

ParseNext ==
    \/ ParseFromFile /\ UNCHANGED <<avars, cvars, tvars, fvars>>
    \/ ParseGetString /\ UNCHANGED <<avars, cvars, tvars, fvars>>
    \/ ParseReadBack /\ UNCHANGED <<avars, cvars, tvars, fvars>>

SpecParse == ParseInit /\ [][ParseNext]_vars

(***************************************************************************)
(* Claims on the round trip and on the lines from_file stores.             *)
(***************************************************************************)
\* dict ==: the same keys with equal values
StoreEq(a, b) ==
    /\ DictKeys(a) = DictKeys(b)
    /\ \A k \in DictKeys(a) : PyEq(DictGet(a, k), DictGet(b, k))

\* a line made of a key of the vocabulary, not a marker, and a value
ValidLine(line) ==
    /\ LineMatch(line).ok
    /\ LineMatch(line).key \in VALID_FEFF_TAGS \ MarkerKeys
    /\ LineMatch(line).val # <<>>

ValidText(text) ==
    \A i \in 1..Len(clean_lines(readlines(text))) :
        ValidLine(clean_lines(readlines(text))[i])

\* C9: for a text of valid key/value lines, parsing the serialized text of
\* the parsed store, pretty or not, sorted or not, gives a store equal to
\* the parsed store.
C9_RoundTrip ==
    (ppc = "reparsed" /\ ValidText(p_src)) => StoreEq(p_back, p_tags)

\* the first word of a line
FirstWord(line) == Take(line, SpanLen(line, Chars \ Whitespace))

\* the first word is spelled in mixed or lower case
MixedOrLower(line) == \E i \in 1..Len(FirstWord(line)) : IsLower(FirstWord(line)[i])

\* the entry the claim gives a line: none for a first word in mixed or lower
\* case, none without a match, none for a marker, else key -> coerce(key, rest)
StatedStore(params, line) ==
    IF MixedOrLower(line) THEN params ELSE StoreMatch(params, LineMatch(line))

RECURSIVE StatedLines(_, _)
StatedLines(lines, params) ==
    IF lines = <<>> THEN params
    ELSE StatedLines(Tail(lines), StatedStore(params, Head(lines)))

StoreIdentical(a, b) ==
    /\ Len(a) = Len(b)
    /\ \A i \in 1..Len(a) : a[i].k = b[i].k /\ Identical(a[i].v, b[i].v)

\* C10: from_file stores an entry only for the lines that match the key
\* pattern: none for a line whose first word is in mixed or lower case, none
\* for the keys ATOMS, POTENTIALS, END and TITLE, and key -> coerce(key,
\* remainder) for every other matching line.
C10_ParseStoresMatchingLines ==
    ppc # "file" =>
        StoreIdentical(p_tags, StatedLines(clean_lines(readlines(p_src)), <<>>))

(***************************************************************************)
(* A FeffTags object under a sequence of assignments, each recorded with   *)
(* the key and the value it was given.                                     *)
(***************************************************************************)
\* names given to __setitem__: a tag, the tag in lower case, the tag in mixed
\* case with blanks around it, a name outside the vocabulary, a name of
\* blanks alone and the empty name
CallNames ==
    {EXAFS,
     <<"e", "x", "a", "f", "s">>,
     <<" ", "E", "x", "a", "f", "s", " ">>,
     <<" ", "f", "o", "o", " ">>,
     <<" ">>,
     <<>>}

\* values given to __setitem__: a text with blanks around it and an int
CallValues == {TextV(<<" ", "3", "*", "1", ".", "5", " ">>), IntV(7)}

SetInit ==
    /\ IdleAtoms /\ IdleCoerce /\ IdleParse /\ IdlePot
    /\ t_self = FeffTags(<<>>)
    /\ t_other = <<>>
    /\ t_out = [op |-> "init"]

\* t_self[key] = val
SetCall ==
    \E key \in CallNames, val \in CallValues :
        /\ t_self' = SetItem(t_self, key, val)
        /\ t_out' = [op |-> "set", key |-> key, val |-> val, warned |-> Warns(key)]
        /\ UNCHANGED t_other

SetNext == SetCall /\ UNCHANGED <<avars, cvars, pvars, fvars>>

SpecSet == SetInit /\ [][SetNext]_vars

(***************************************************************************)
(* Claims on assignment.                                                   *)
(***************************************************************************)
\* the last call was an assignment of a text to a spelling of a tag
SetTextToTag ==
    /\ t_out.op = "set" /\ t_out.val.t = "str"
    /\ Upper(Strip(t_out.key)) \in VALID_FEFF_TAGS

\* C11: the coercion class of a name given to __setitem__ is that of its
\* trimmed, upper-cased form: a text assigned to a lower-case or mixed-case
\* spelling of a tag K is stored as the typed value that the assignment to K
\* stores.
C11_ClassFromUpperCasedName ==
    SetTextToTag =>
        Identical(DictGet(t_self, Strip(t_out.key)),
                  proc_val(Upper(Strip(t_out.key)), Strip(t_out.val.v)))

\* C12: no key of the store is the empty text or made of blanks alone.
C12_NoBlankKey ==
    \A k \in DictKeys(t_self) : Strip(k) # <<>>

\* what __setitem__ is to store for val under the trimmed name k
ValueAsSet(k, val) == IF val.t = "str" THEN proc_val(k, Strip(val.v)) ELSE val

\* C13: an assignment adds the trimmed name to the keys and removes none,
\* names that differ in case being different keys; the name maps to the value
\* given (coerced when it is text, as it is otherwise); the entry of every
\* other key is what it was; and a name outside the vocabulary is stored all
\* the same, with a warning.
C13_SetStoresUnderTrimmedName ==
    [][t_out'.op = "set" =>
          /\ DictKeys(t_self') = DictKeys(t_self) \cup {Strip(t_out'.key)}
          /\ Identical(DictGet(t_self', Strip(t_out'.key)),
                       ValueAsSet(Strip(t_out'.key), t_out'.val))
          /\ \A k \in DictKeys(t_self) \ {Strip(t_out'.key)} :
                 Identical(DictGet(t_self', k), DictGet(t_self, k))
          /\ t_out'.warned <=> (Upper(Strip(t_out'.key)) \notin VALID_FEFF_TAGS)]_vars

\* a name outside the vocabulary was given with blanks around it and is a
\* key without them, next to two keys that differ in case alone, one of
\* which has been assigned twice
C13_Witness ==
    /\ t_out.op = "set" /\ t_out.warned
    /\ t_out.key = <<" ", "f", "o", "o", " ">>
    /\ HasKey(t_self, foo) /\ ~HasKey(t_self, t_out.key)
    /\ HasKey(t_self, EXAFS) /\ HasKey(t_self, <<"e", "x", "a", "f", "s">>)
    /\ DictGet(t_self, EXAFS) = IntV(7)
    /\ t_self[1].k = EXAFS /\ Len(t_self) = 3

(***************************************************************************)
(* FeffPot: the potential index map and the table of potentials.           *)
(***************************************************************************)
Li == <<"L", "i">>

\* the species of the structures given to FeffPot: those of the shell table
\* and a third element
PotSpecies == Species \cup {[symbol |-> Li, decor |-> <<"+">>]}

PotSymbols == {sp.symbol : sp \in PotSpecies}

\* sites of the first two species at the origin and at 2.0 angstrom along x,
\* and a site of the third at 2.0 angstrom
PotSites ==
    {[specie |-> sp, coords |-> <<x, 0, 0>>] : sp \in Species, x \in {0, 20}}
        \cup {[specie |-> sp, coords |-> <<20, 0, 0>>] : sp \in PotSpecies \ Species}

PotStructures == UNION {[1..n -> PotSites] : n \in 1..MaxSites}

\* Element.Z: the atomic number
Z(sym) == IF sym = Co THEN 27 ELSE IF sym = O THEN 8 ELSE 3

\* struct.composition: each distinct element with the number of its sites
Composition(st) ==
    {[symbol |-> a, amount |-> Cardinality({i \in 1..Len(st) : st[i].specie.symbol = a})] :
        a \in {st[i].specie.symbol : i \in 1..Len(st)}}

\* the map with the unique symbols numbered from the last to the first
FeffPotDictReversed(st) ==
    LET u == UniquePotAtoms(Syms(st), <<>>)
    IN  [a \in {u[k] : k \in 1..Len(u)} |->
            Len(u) + 1 - (CHOOSE k \in 1..Len(u) : u[k] = a)]

\* FeffPot.__init__: unique_pot_atoms and _pot_dict[atom] = i + 1
FeffPotDict(st) ==
    LET u == UniquePotAtoms(Syms(st), <<>>)
    IN  [a \in {u[k] : k \in 1..Len(u)} |-> CHOOSE k \in 1..Len(u) : u[k] = a]

PotConstruct ==
    /\ fpc = "args"
    /\ f_pot_dict' = FeffPotDict(struct)
    /\ fpc' = "ready"
    /\ UNCHANGED pot_out

\* [0, cz, cs, -1, -1, .0001, 0]: the row of the absorbing atom; xnatph
\* counts ten-thousandths
CenterRow(cs) ==
    [ipot |-> 0, Z |-> Z(cs), tag |-> cs, lmax1 |-> -1, lmax2 |-> -1,
     xnatph |-> 1, spinph |-> 0]

\* [ipot, cz, cs, -1, -1, stoic, 0]: the row of one item of the composition
ElementRow(pd, item) ==
    [ipot |-> pd[item.symbol], Z |-> Z(item.symbol), tag |-> item.symbol,
     lmax1 |-> -1, lmax2 |-> -1, xnatph |-> 10000 * item.amount, spinph |-> 0]

\* ipotrow: the row of the center, then one row for each item
IpotRows(pd, cs, items) ==
    <<CenterRow(cs)>> \o [i \in 1..Len(items) |-> ElementRow(pd, items[i])]

\* sorted(ipotrow, key=itemgetter(0)): stable, by potential index
RECURSIVE InsertIpot(_, _)
InsertIpot(sorted, r) ==
    IF sorted = <<>> THEN <<r>>
    ELSE IF r.ipot < Head(sorted).ipot THEN <<r>> \o sorted
    ELSE <<Head(sorted)>> \o InsertIpot(Tail(sorted), r)

\* the rows left in the order they were appended
IpotUnsorted(rows) == rows

RECURSIVE IpotSorted(_)
IpotSorted(rows) ==
    IF rows = <<>> THEN <<>>
    ELSE InsertIpot(IpotSorted(Take(rows, Len(rows) - 1)), rows[Len(rows)])

NoPotentials == [status |-> "none", rows |-> <<>>]

\* FeffPot.__str__; the items of the composition come in an order of its own
PotStr ==
    /\ fpc = "ready"
    /\ LET index == IndexOf(Syms(struct), central_atom) IN
       IF index = 0
       THEN pot_out' = [status |-> "ValueError", rows |-> <<>>]
       ELSE \E items \in Orders(Composition(struct)) :
              pot_out' = [status |-> "ok",
                          rows |-> IpotSorted(IpotRows(f_pot_dict,
                                                       struct[index].specie.symbol, items))]
    /\ fpc' = "done"
    /\ UNCHANGED f_pot_dict

\* a FeffAtoms and a FeffPot of one structure and one central atom
PotInit ==
    /\ IdleCoerce /\ IdleTags /\ IdleParse
    /\ struct \in PotStructures
    /\ central_atom \in PotSymbols
    /\ pot_dict = <<>> /\ apc = "args" /\ atoms_out = NoTable
    /\ f_pot_dict = <<>> /\ fpc = "args" /\ pot_out = NoPotentials

PotNext ==
    \/ AtomsConstruct /\ UNCHANGED <<cvars, tvars, pvars, fvars>>
    \/ AtomsGetString /\ UNCHANGED <<cvars, tvars, pvars, fvars>>
    \/ PotConstruct /\ UNCHANGED <<avars, cvars, tvars, pvars>>
    \/ PotStr /\ UNCHANGED <<avars, cvars, tvars, pvars>>

SpecPot == PotInit /\ [][PotNext]_vars

(***************************************************************************)
(* Claims on the potential index map and the table of potentials.          *)
(***************************************************************************)
\* the distinct species symbols of the sites
SymbolsOf(st) == {st[i].specie.symbol : i \in 1..Len(st)}

\* the place of the first site of symbol a
FirstSite(st, a) ==
    CHOOSE i \in 1..Len(st) :
        st[i].specie.symbol = a /\ \A j \in 1..(i - 1) : st[j].specie.symbol # a

\* pd maps the symbols of st one to one onto 1..N in the order in which the
\* symbols first occur
IsIndexMap(pd, st) ==
    /\ DOMAIN pd = SymbolsOf(st)
    /\ {pd[a] : a \in DOMAIN pd} = 1..Cardinality(SymbolsOf(st))
    /\ \A a, b \in DOMAIN pd :
          /\ (pd[a] = pd[b]) => (a = b)
          /\ (pd[a] < pd[b]) <=> (FirstSite(st, a) < FirstSite(st, b))

\* C14: the potential index map is a bijection between the distinct species
\* symbols of the sites and 1..N, in the order of first occurrence; the maps
\* of FeffAtoms and of FeffPot built from one structure are identical; and
\* every row of the shell table but row 0 carries the map's index of its
\* species.
C14_IndexMapSharedBijection ==
    /\ apc \in {"ready", "done"} => IsIndexMap(pot_dict, struct)
    /\ fpc \in {"ready", "done"} => IsIndexMap(f_pot_dict, struct)
    /\ (apc \in {"ready", "done"} /\ fpc \in {"ready", "done"}) => pot_dict = f_pot_dict
    /\ (Built /\ fpc \in {"ready", "done"}) =>
          \A i \in 2..Len(Rows) :
              /\ Rows[i].ipot = f_pot_dict[struct[Rows[i].site].specie.symbol]
              /\ Rows[i].atm = struct[Rows[i].site].specie.symbol
              /\ Rows[i].ipot >= 1

\* a table of three rows over three species, both objects constructed, the
\* center not the first site of the structure
C14_Witness ==
    /\ Built /\ fpc \in {"ready", "done"}
    /\ Len(Rows) = 3
    /\ Cardinality(SymbolsOf(struct)) = 3
    /\ struct[1].specie.symbol # central_atom

PotBuilt == fpc = "done" /\ pot_out.status = "ok"

PotRows == pot_out.rows

\* C15: for a structure of N distinct elements that holds the center species
\* the table of potentials has N + 1 rows with the indices 0, 1, ..., N in
\* this order: row 0 is the center species with index 0 and the placeholder
\* stoichiometry, and each distinct element has one row more, with its index
\* of the shared map and the number of its sites.
C15_PotentialRows ==
    PotBuilt =>
        /\ Len(PotRows) = Cardinality(SymbolsOf(struct)) + 1
        /\ \A i \in 1..Len(PotRows) : PotRows[i].ipot = i - 1
        /\ PotRows[1].tag = central_atom
        /\ PotRows[1].Z = Z(central_atom)
        /\ PotRows[1].xnatph = 1
        /\ \A a \in SymbolsOf(struct) :
              \E i \in 2..Len(PotRows) :
                  /\ PotRows[i].tag = a
                  /\ PotRows[i].Z = Z(a)
                  /\ PotRows[i].ipot = f_pot_dict[a]
                  /\ PotRows[i].xnatph =
                         10000 * Cardinality({j \in 1..Len(struct) :
                                                 struct[j].specie.symbol = a})
                  /\ \A h \in 2..Len(PotRows) : PotRows[h].tag = a => h = i
        /\ Cardinality({i \in 1..Len(PotRows) : PotRows[i].tag = central_atom}) = 2

\* the table of a structure of three elements whose center species is the
\* last of them to occur
C15_Witness ==
    /\ PotBuilt
    /\ Len(PotRows) = 4
    /\ f_pot_dict[central_atom] = 3
    /\ PotRows[4].tag = central_atom

(***************************************************************************)
(* Claim on the center of the shell table.                                 *)
(***************************************************************************)
HasCenter == \E i \in 1..Len(struct) : struct[i].specie.symbol = central_atom

\* the rows of table t are those of the sites within its radius of point c,
\* each with its coordinates and its distance taken from c
BuiltAround(t, c) ==
    /\ {t.rows[i].site : i \in 1..Len(t.rows)} =
           {j \in 1..Len(struct) : Distance(struct[j].coords, c) <= t.radius}
    /\ \A i \in 1..Len(t.rows) :
          /\ t.rows[i].x = FormatF(struct[t.rows[i].site].coords[1] - c[1])
          /\ t.rows[i].y = FormatF(struct[t.rows[i].site].coords[2] - c[2])
          /\ t.rows[i].z = FormatF(struct[t.rows[i].site].coords[3] - c[3])
          /\ t.rows[i].dist = Distance(struct[t.rows[i].site].coords, c)
          /\ t.rows[i].distance = FormatF(t.rows[i].dist)

\* C16: get_string takes as center the first site, in site order, whose
\* species is the central atom; without such a site it raises and gives no
\* table; either way the object is left as it was.
C16_CenterIsFirstSiteOrError ==
    [][(apc = "ready" /\ apc' = "done") =>
          /\ struct' = struct /\ central_atom' = central_atom /\ pot_dict' = pot_dict
          /\ HasCenter =>
                /\ atoms_out'.status = "ok"
                /\ BuiltAround(atoms_out', struct[FirstSite(struct, central_atom)].coords)
          /\ ~HasCenter =>
                /\ atoms_out'.status = "ValueError"
                /\ atoms_out'.rows = <<>>]_vars

\* a table of a structure with two sites of the central atom at different
\* places, neither the first site of the structure, cut off so that the
\* choice between them shows
C16_Witness ==
    /\ Built
    /\ Len(struct) = 3
    /\ struct[1].specie.symbol # central_atom
    /\ struct[2].specie.symbol = central_atom
    /\ struct[3].specie.symbol = central_atom
    /\ struct[2].coords = <<120, 0, 0>> /\ struct[3].coords = <<0, 0, 0>>
    /\ struct[1].coords = <<10, 0, 0>>
    /\ atoms_out.radius = 25
    /\ Len(Rows) = 1 /\ Rows[1].site = 2

(***************************************************************************)
(* The operands of __add__, diff and get_string.  The two operands are the *)
(* objects "self" and "other"; each call is followed through the objects   *)
(* its assignments reach.                                                  *)
(***************************************************************************)
FrameStores == {FeffTags(params) : params \in OtherParams}

\* the items of the object self when self.__add__(other) has returned or
\* raised: the assignments params[k] = v reach the object params is bound to
SelfAfterAdd(self, other) ==
    IF AddParams(self).obj = "self"
           /\ AddLoop(self, other, AddParams(self).items).status = "ok"
    THEN AddLoop(self, other, AddParams(self).items).params
    ELSE self

\* the object __add__ returns: FeffTags(params) constructs one
AddReturns(r) == IF r.status = "ok" THEN "FeffTags(params)" ELSE "none"

FrameInit ==
    /\ IdleAtoms /\ IdleCoerce /\ IdleParse /\ IdlePot
    /\ t_self \in FrameStores
    /\ t_other \in FrameStores
    /\ t_out = [op |-> "init"]

\* t_self + x, x being the object other or the object self
FrameAdd ==
    \E x \in {"self", "other"} :
        /\ t_self' = SelfAfterAdd(t_self, IF x = "self" THEN t_self ELSE t_other)
        /\ t_other' = t_other
        /\ t_out' = [op |-> "add", other |-> x,
                     ret |-> Add(t_self, IF x = "self" THEN t_self ELSE t_other),
                     obj |-> AddReturns(Add(t_self, IF x = "self" THEN t_self ELSE t_other))]

\* t_self.diff(x): similar_param and different_param are dicts of the call
FrameDiff ==
    \E x \in {"self", "other"} :
        /\ t_out' = [op |-> "diff", other |-> x,
                     ret |-> Diff(t_self, IF x = "self" THEN t_self ELSE t_other)]
        /\ UNCHANGED <<t_self, t_other>>

\* t_self.get_string(sort_keys, pretty): keys and lines are lists of the call
FrameGetString ==
    \E sort_keys \in BOOLEAN, pretty \in BOOLEAN :
        /\ t_out' = [op |-> "get_string", sort_keys |-> sort_keys, pretty |-> pretty,
                     ret |-> get_string(t_self, sort_keys, pretty)]
        /\ UNCHANGED <<t_self, t_other>>

FrameNext ==
    \/ FrameAdd /\ UNCHANGED <<avars, cvars, pvars, fvars>>
    \/ FrameDiff /\ UNCHANGED <<avars, cvars, pvars, fvars>>
    \/ FrameGetString /\ UNCHANGED <<avars, cvars, pvars, fvars>>

SpecFrame == FrameInit /\ [][FrameNext]_vars

=============================================================================
